---- MODULE Spec2Model ----
(***************************************************************************)
(* A model of slim-react (src/src/index.tsx): the fiber tree, the          *)
(* reconciler, the cooperative work loop, the commit walk, the host-node   *)
(* props diff and the useState hook.                                       *)
(*                                                                         *)
(* Fibers and host nodes live in two arenas (sequences); a reference is an *)
(* index into the arena and NULL (0) stands for null/undefined.            *)
(* A prop value, an attribute value and an event handler are all records   *)
(* [k, s, f, i] so that any two of them can be compared:                   *)
(*   k = "s"     a string value s                                          *)
(*   k = "fn"    a handler of the caller, identified by its name s         *)
(*   k = "set"   the closure around the setter of hook cell i of fiber f   *)
(*   k = "undef" undefined                                                 *)
(* props is the record [attrs, children]: attrs is the props object        *)
(* without its children key, children is props.children.                   *)
(***************************************************************************)
EXTENDS Integers, Sequences, FiniteSets, TLC

\* ---------------------------------------------------------------- bounds
\* render calls plus setter calls in one behaviour
MaxRequests == 3
\* units of work one idle slice may process before its deadline runs out
MaxSlice == 2

\* --------------------------------------------------------------- values
NULL == 0

TEXT_ELEMENT == "TEXT_ELEMENT"

\* the type of the root fiber, which render and setState leave undefined
NoType == ""

Str(x) == [k |-> "s", s |-> x, f |-> 0, i |-> 0]
Fn(x) == [k |-> "fn", s |-> x, f |-> 0, i |-> 0]
Setter(fiber, index) == [k |-> "set", s |-> "", f |-> fiber, i |-> index]
Undefined == [k |-> "undef", s |-> "", f |-> 0, i |-> 0]

EmptyProps == [key \in {} |-> Undefined]

Range(seq) == {seq[j] : j \in DOMAIN seq}

Remove(seq, x) == SelectSeq(seq, LAMBDA y : y # x)

\* ------------------------------------------------------------- elements
Element(type, attrs, children) ==
  [type |-> type, props |-> [attrs |-> attrs, children |-> children]]

createTextElement(text) ==
  Element(TEXT_ELEMENT, "nodeValue" :> Str(text), <<>>)

\* The element trees handed to render: a host tree in four shapes (two
\* children; its first child only; no child; another type at index 0) whose
\* attributes and listeners differ, and the source's Counter component.
AppAB == Element("div", ("id" :> Str("a")) @@ ("onClick" :> Fn("h1")),
                 << Element("p", EmptyProps, <<createTextElement("hello")>>),
                    Element("a", "href" :> Str("x"), <<>>) >>)
AppA == Element("div", ("id" :> Str("b")) @@ ("onClick" :> Fn("h2")),
                << Element("p", EmptyProps, <<createTextElement("hello")>>) >>)
AppNone == Element("div", "onClick" :> Fn("h1"), <<>>)
AppSB == Element("div", "id" :> Str("a"),
                 << Element("span", EmptyProps, <<>>),
                    Element("a", "title" :> Str("y"), <<>>) >>)
CounterEl == Element("Counter", EmptyProps, <<>>)

RenderInputs == {AppAB, AppA, AppNone, AppSB, CounterEl}

\* a component that calls useState twice per render
PairEl == Element("Pair", EmptyProps, <<>>)

\* the elements whose type is a component
ComponentInputs == {CounterEl, PairEl}

\* typeof fiber.type === 'function'
FunctionTypes == {"Counter", "Pair"}

\* ------------------------------------------------------- host-node props
EventKeys == {"onClick"}

isEvent(key) == key \in EventKeys

isProperty(key) == key # "children" /\ ~isEvent(key)

\* name.toLowerCase().substring(2)
EventType(name) == IF name = "onClick" THEN "click" ELSE name

Get(props, key) == IF key \in DOMAIN props THEN props[key] ELSE Undefined

isNew(prev, next, key) == Get(prev, key) # Get(next, key)

isGone(prev, next, key) == key \notin DOMAIN next

RemovedListeners(prevProps, nextProps) ==
  {<<EventType(name), prevProps[name]>> :
     name \in {key \in DOMAIN prevProps :
                 isEvent(key) /\ (key \notin DOMAIN nextProps \/ isNew(prevProps, nextProps, key))}}

AddedListeners(prevProps, nextProps) ==
  {<<EventType(name), nextProps[name]>> :
     name \in {key \in DOMAIN nextProps : isEvent(key) /\ isNew(prevProps, nextProps, key)}}

\* mutant: attributes absent from the new props are never cleared
GoneKeysNever(prevProps, nextProps) == {}

GoneKeys(prevProps, nextProps) ==
  {key \in DOMAIN prevProps : isProperty(key) /\ isGone(prevProps, nextProps, key)}

ChangedKeys(prevProps, nextProps) ==
  {key \in DOMAIN nextProps : isProperty(key) /\ isNew(prevProps, nextProps, key)}

\* mutant: adding a listener that is already registered removes it
updateDOMNodeToggles(node, prevProps, nextProps) ==
  LET gone == GoneKeys(prevProps, nextProps)
      changed == ChangedKeys(prevProps, nextProps)
      cleared == [key \in DOMAIN node.attrs \cup gone |->
                    IF key \in gone THEN Str("") ELSE node.attrs[key]]
      written == [key \in DOMAIN cleared \cup changed |->
                    IF key \in changed THEN nextProps[key] ELSE cleared[key]]
      kept == node.listeners \ RemovedListeners(prevProps, nextProps)
      added == AddedListeners(prevProps, nextProps)
  IN [node EXCEPT !.listeners = (kept \ added) \cup (added \ kept),
                  !.attrs = written]

updateDOMNode(node, prevProps, nextProps) ==
  LET gone == GoneKeys(prevProps, nextProps)
      changed == ChangedKeys(prevProps, nextProps)
      cleared == [key \in DOMAIN node.attrs \cup gone |->
                    IF key \in gone THEN Str("") ELSE node.attrs[key]]
      written == [key \in DOMAIN cleared \cup changed |->
                    IF key \in changed THEN nextProps[key] ELSE cleared[key]]
  IN [node EXCEPT
        !.listeners = (@ \ RemovedListeners(prevProps, nextProps))
                        \cup AddedListeners(prevProps, nextProps),
        !.attrs = written]

\* ------------------------------------------------------------ host tree
Container == 1

HostNode(tag) ==
  [tag |-> tag, attrs |-> EmptyProps, listeners |-> {}, children |-> <<>>]

\* document.createTextNode("") / document.createElement(type), then the diff
createDOMNode(fiber) ==
  updateDOMNode(HostNode(IF fiber.type = TEXT_ELEMENT THEN "#text" ELSE fiber.type),
                EmptyProps, fiber.props.attrs)

\* Node.appendChild: the child leaves its present parent, then goes last
appendChild(dom, parent, child) ==
  LET detached == [n \in DOMAIN dom |-> [dom[n] EXCEPT !.children = Remove(@, child)]]
  IN [detached EXCEPT ![parent].children = Append(@, child)]

\* Node.removeChild throws unless child is a node and a child of parent
canRemoveChild(dom, parent, child) ==
  child # NULL /\ child \in Range(dom[parent].children)

removeChild(dom, parent, child) ==
  [dom EXCEPT ![parent].children = Remove(@, child)]

\* ---------------------------------------------------------------- fibers
Fiber(type, props, dom, parent, alternate, effectTag) ==
  [type |-> type, dom |-> dom, props |-> props, alternate |-> alternate,
   child |-> NULL, sibling |-> NULL, parent |-> parent,
   effectTag |-> effectTag, hooks |-> <<>>]

RootProps(element) == [attrs |-> EmptyProps, children |-> <<element>>]

\* Besides the program state the machine keeps a record of the run: requests
\* (render and setter calls so far), lastOp (what the last step was: "render",
\* "setState", or a workLoop call that ended in "yield", "commit" or "throw"),
\* slices (workLoop calls since the last request), expected (the state a pass
\* run in one slice from the last request would end in), installed (the root
\* the last request installed) and interrupted (the roots of the passes that
\* were between two units when a setter was called).
\*
\* The program state the operators below transform: the four globals of
\* lines 29-32, wipFiber and hookIndex, the two arenas, whether an exception
\* has left the idle callback unarmed (crashed), and two records of what was
\* done: visited (the fibers performUnitOfWork processed in this pass) and
\* log (one entry per fiber commitWork visited in the last commit).
InitState ==
  [fibers |-> <<>>,
   dom |-> <<HostNode("container")>>,
   wipRoot |-> NULL, currentRoot |-> NULL, nextUnitOfWork |-> NULL,
   deletions |-> <<>>,
   wipFiber |-> NULL, hookIndex |-> 0,
   crashed |-> FALSE,
   visited |-> <<>>,
   log |-> <<>>]

\* ------------------------------------------------------------ reconciler
RECURSIVE reconcileLoop(_, _, _, _, _, _)
reconcileLoop(st, wipFiber, elements, index, oldFiber, prevSibling) ==
  IF ~(index < Len(elements) \/ oldFiber # NULL) THEN st
  ELSE
    LET hasElement == index < Len(elements)
        element == elements[index + 1]
        isSameType == /\ oldFiber # NULL
                      /\ hasElement
                      /\ element.type = st.fibers[oldFiber].type
        newFiber == IF hasElement THEN Len(st.fibers) + 1 ELSE NULL
        created ==
          IF isSameType
            THEN Append(st.fibers,
                        Fiber(st.fibers[oldFiber].type, element.props,
                              st.fibers[oldFiber].dom, wipFiber, oldFiber, "UPDATE"))
          ELSE IF hasElement
            THEN Append(st.fibers,
                        Fiber(element.type, element.props, NULL, wipFiber, NULL, "PLACEMENT"))
          ELSE st.fibers
        isDelete == oldFiber # NULL /\ ~isSameType
        tagged == IF isDelete THEN [created EXCEPT ![oldFiber].effectTag = "DELETION"]
                  ELSE created
        linked == IF index = 0 THEN [tagged EXCEPT ![wipFiber].child = newFiber]
                  ELSE IF hasElement THEN [tagged EXCEPT ![prevSibling].sibling = newFiber]
                  ELSE tagged
    IN reconcileLoop(
         [st EXCEPT !.fibers = linked,
                    !.deletions = IF isDelete THEN Append(@, oldFiber) ELSE @],
         wipFiber, elements, index + 1,
         IF oldFiber # NULL THEN st.fibers[oldFiber].sibling ELSE NULL,
         newFiber)

reconcileChildren(st, wipFiber, elements) ==
  LET alternate == st.fibers[wipFiber].alternate
  IN reconcileLoop(st, wipFiber, elements, 0,
                   IF alternate # NULL THEN st.fibers[alternate].child ELSE NULL,
                   NULL)

\* ----------------------------------------------------------------- hooks
\* the transition functions handed to setters: the source's c => c + 1, and
\* c => c * 2, which does not commute with it
Actions == {"inc", "dbl"}

\* action(hook.state)
ApplyAction(action, state) ==
  IF action = "inc" THEN state + 1
  ELSE IF action = "dbl" THEN state * 2
  ELSE state

\* mutant: the queue is drained from its newest action to its oldest
RECURSIVE FoldActionsNewestFirst(_, _)
FoldActionsNewestFirst(actions, state) ==
  IF actions = <<>> THEN state
  ELSE ApplyAction(Head(actions), FoldActionsNewestFirst(Tail(actions), state))

RECURSIVE FoldActions(_, _)
FoldActions(actions, state) ==
  IF actions = <<>> THEN state
  ELSE FoldActions(Tail(actions), ApplyAction(Head(actions), state))

\* mutant: the previous cell is the last one of the alternate, whatever the
\* call index
useStateLastCell(st, initial) ==
  LET alternate == st.fibers[st.wipFiber].alternate
      hasOld == /\ alternate # NULL
                /\ st.fibers[alternate].hooks # <<>>
      oldHook == st.fibers[alternate].hooks[Len(st.fibers[alternate].hooks)]
      hook == [state |-> FoldActions(IF hasOld THEN oldHook.queue ELSE <<>>,
                                     IF hasOld THEN oldHook.state ELSE initial),
               queue |-> <<>>]
  IN [st EXCEPT !.fibers[st.wipFiber].hooks = Append(@, hook),
                !.hookIndex = @ + 1]

\* useState up to its return: the state after the call, whose new hook cell
\* is the last of wipFiber.hooks
useState(st, initial) ==
  LET alternate == st.fibers[st.wipFiber].alternate
      hasOld == /\ alternate # NULL
                /\ st.hookIndex + 1 \in DOMAIN st.fibers[alternate].hooks
      oldHook == st.fibers[alternate].hooks[st.hookIndex + 1]
      hook == [state |-> FoldActions(IF hasOld THEN oldHook.queue ELSE <<>>,
                                     IF hasOld THEN oldHook.state ELSE initial),
               queue |-> <<>>]
  IN [st EXCEPT !.fibers[st.wipFiber].hooks = Append(@, hook),
                !.hookIndex = @ + 1]

\* Counter: one useState(1); its h1 carries the closure around the setter
CounterReturns(after, cell) ==
  [st |-> after,
   element |-> Element("h1", "onClick" :> Setter(after.wipFiber, cell),
                       << createTextElement("Count: "),
                          createTextElement(
                            ToString(after.fibers[after.wipFiber].hooks[cell].state)) >>)]

Counter(st) == CounterReturns(useState(st, 1), 1)

\* the initial values of the two useState calls of Pair
PairInitial == <<1, 5>>

\* Pair: useState(1) then useState(5); its two children carry the closures
\* around the two setters
PairReturns(after, hooks) ==
  [st |-> after,
   element |-> Element("div", EmptyProps,
                       << Element("p", "onClick" :> Setter(after.wipFiber, 1),
                                  <<createTextElement(ToString(hooks[1].state))>>),
                          Element("a", "onClick" :> Setter(after.wipFiber, 2),
                                  <<createTextElement(ToString(hooks[2].state))>>) >>)]

PairCalled(after) == PairReturns(after, after.fibers[after.wipFiber].hooks)

Pair(st) == PairCalled(useState(useState(st, PairInitial[1]), PairInitial[2]))

\* the argument of the useState call number `index` of a component
InitialOf(type, index) == IF type = "Pair" THEN PairInitial[index] ELSE 1

\* (fiber.type as Function)(fiber.props)
CallComponent(st, type) == IF type = "Pair" THEN Pair(st) ELSE Counter(st)

\* reconcileChildren(fiber, children), children being what the call returned
reconcileReturned(called, fiber) ==
  reconcileChildren(called.st, fiber, <<called.element>>)

updateFunctionComponent(st, fiber) ==
  reconcileReturned(
    CallComponent([st EXCEPT !.wipFiber = fiber, !.hookIndex = 0,
                             !.fibers[fiber].hooks = <<>>],
                  st.fibers[fiber].type),
    fiber)

\* mutant: the host node is attached under its parent's as soon as it is made
updateHostComponentAttaches(st, fiber) ==
  LET node == Len(st.dom) + 1
      parentDom == st.fibers[st.fibers[fiber].parent].dom
      ensured ==
        IF st.fibers[fiber].dom = NULL
          THEN [st EXCEPT
                  !.dom = IF parentDom # NULL
                            THEN appendChild(Append(@, createDOMNode(st.fibers[fiber])),
                                             parentDom, node)
                            ELSE Append(@, createDOMNode(st.fibers[fiber])),
                  !.fibers[fiber].dom = node]
          ELSE st
  IN reconcileChildren(ensured, fiber, ensured.fibers[fiber].props.children)

updateHostComponent(st, fiber) ==
  LET node == Len(st.dom) + 1
      ensured ==
        IF st.fibers[fiber].dom = NULL
          THEN [st EXCEPT !.dom = Append(@, createDOMNode(st.fibers[fiber])),
                          !.fibers[fiber].dom = node]
          ELSE st
  IN reconcileChildren(ensured, fiber, ensured.fibers[fiber].props.children)

\* ------------------------------------------------------------- work loop
\* mutant: the walk never climbs to the parent to look for its sibling
NextSiblingNoClimb(fibers, nextFiber) ==
  IF nextFiber = NULL THEN NULL ELSE fibers[nextFiber].sibling

RECURSIVE NextSibling(_, _)
NextSibling(fibers, nextFiber) ==
  IF nextFiber = NULL THEN NULL
  ELSE IF fibers[nextFiber].sibling # NULL THEN fibers[nextFiber].sibling
  ELSE NextSibling(fibers, fibers[nextFiber].parent)

\* performUnitOfWork, with the assignment of its result to nextUnitOfWork
performUnitOfWork(st, fiber) ==
  LET done == IF st.fibers[fiber].type \in FunctionTypes
                THEN updateFunctionComponent(st, fiber)
                ELSE updateHostComponent(st, fiber)
  IN [done EXCEPT
        !.visited = Append(@, fiber),
        !.nextUnitOfWork = IF done.fibers[fiber].child # NULL
                             THEN done.fibers[fiber].child
                             ELSE NextSibling(done.fibers, fiber)]

\* ---------------------------------------------------------------- commit
RECURSIVE HostParent(_, _)
HostParent(fibers, parentFiber) ==
  IF fibers[parentFiber].dom # NULL THEN parentFiber
  ELSE HostParent(fibers, fibers[parentFiber].parent)

LogEntry(fiber, effectTag, op, node, parent, keys) ==
  [fiber |-> fiber, effectTag |-> effectTag, op |-> op, node |-> node,
   parent |-> parent, keys |-> keys]

\* One commitWork call and the calls it makes. An exception (removeChild of
\* null, or of a node that is no child of parentDom) ends the whole commit:
\* once crashed is set every pending call returns at once.
RECURSIVE commitWork(_, _)
commitWork(st, fiber) ==
  IF fiber = NULL \/ st.crashed THEN st
  ELSE
    LET fb == st.fibers[fiber]
        parentDom == st.fibers[HostParent(st.fibers, fb.parent)].dom
        entry(op, keys) == LogEntry(fiber, fb.effectTag, op, fb.dom, parentDom, keys)
        prevProps == st.fibers[fb.alternate].props.attrs
        applied ==
          IF fb.effectTag = "PLACEMENT" /\ fb.dom # NULL
            THEN [st EXCEPT !.dom = appendChild(@, parentDom, fb.dom),
                            !.log = Append(@, entry("append", {}))]
          ELSE IF fb.effectTag = "DELETION"
            THEN IF canRemoveChild(st.dom, parentDom, fb.dom)
                   THEN [st EXCEPT !.dom = removeChild(@, parentDom, fb.dom),
                                   !.log = Append(@, entry("remove", {}))]
                   ELSE [st EXCEPT !.crashed = TRUE,
                                   !.log = Append(@, entry("throw", {}))]
          ELSE IF fb.effectTag = "UPDATE" /\ fb.dom # NULL
            THEN [st EXCEPT
                    !.dom[fb.dom] = updateDOMNode(@, prevProps, fb.props.attrs),
                    !.log = Append(@, entry("update",
                                            GoneKeys(prevProps, fb.props.attrs)
                                              \cup ChangedKeys(prevProps, fb.props.attrs)))]
          ELSE [st EXCEPT !.log = Append(@, entry("none", {}))]
    IN commitWork(commitWork(applied, fb.child), fb.sibling)

\* deletions.forEach(commitWork)
RECURSIVE commitDeletions(_, _)
commitDeletions(st, index) ==
  IF index > Len(st.deletions) THEN st
  ELSE commitDeletions(commitWork(st, st.deletions[index]), index + 1)

commitRoot(st) ==
  LET deleted == commitDeletions([st EXCEPT !.log = <<>>], 1)
      walked == commitWork(deleted, st.fibers[st.wipRoot].child)
  IN IF walked.crashed THEN walked
     ELSE [walked EXCEPT !.currentRoot = st.wipRoot, !.wipRoot = NULL]

\* the while loop of workLoop; budget is the number of units after which
\* deadline.timeRemaining() < 1 first holds (checked after each unit)
RECURSIVE workUnits(_, _)
workUnits(st, budget) ==
  IF st.nextUnitOfWork # NULL /\ budget > 0
    THEN workUnits(performUnitOfWork(st, st.nextUnitOfWork), budget - 1)
    ELSE st

\* mutant: the pointer is not kept across a yield; a slice starts at the root
workLoopRestarts(st, budget) ==
  LET worked == workUnits([st EXCEPT !.nextUnitOfWork = st.wipRoot], budget)
  IN IF worked.nextUnitOfWork = NULL /\ worked.wipRoot # NULL
       THEN commitRoot(worked)
       ELSE worked

\* mutant: the commit does not wait for the pointer to be exhausted
workLoopCommitsEarly(st, budget) ==
  LET worked == workUnits(st, budget)
  IN IF worked.wipRoot # NULL THEN commitRoot(worked) ELSE worked

workLoop(st, budget) ==
  LET worked == workUnits(st, budget)
  IN IF worked.nextUnitOfWork = NULL /\ worked.wipRoot # NULL
       THEN commitRoot(worked)
       ELSE worked

\* ------------------------------------------------------ render, setState
render(st, element) ==
  LET root == Len(st.fibers) + 1
  IN [st EXCEPT
        !.fibers = Append(@, Fiber(NoType, RootProps(element), Container, NULL,
                                   st.currentRoot, "NONE")),
        !.wipRoot = root,
        !.nextUnitOfWork = root,
        !.visited = <<>>]

\* mutant: a setter called during a pass only enqueues; the pass goes on
setStateDeferred(st, fiber, cell, action) ==
  LET pushed == [st EXCEPT !.fibers[fiber].hooks[cell].queue = Append(@, action)]
      root == Len(st.fibers) + 1
  IN IF st.currentRoot = NULL \/ st.nextUnitOfWork # NULL THEN pushed
     ELSE [pushed EXCEPT
             !.fibers = Append(@, Fiber(NoType, st.fibers[st.currentRoot].props,
                                        st.fibers[st.currentRoot].dom, NULL,
                                        st.currentRoot, "NONE")),
             !.wipRoot = root,
             !.nextUnitOfWork = root,
             !.deletions = <<>>,
             !.visited = <<>>]

\* mutant: the new root is installed but the pointer stays in the old tree
setStateKeepsPointer(st, fiber, cell, action) ==
  LET pushed == [st EXCEPT !.fibers[fiber].hooks[cell].queue = Append(@, action)]
      root == Len(st.fibers) + 1
  IN IF st.currentRoot = NULL THEN pushed
     ELSE [pushed EXCEPT
             !.fibers = Append(@, Fiber(NoType, st.fibers[st.currentRoot].props,
                                        st.fibers[st.currentRoot].dom, NULL,
                                        st.currentRoot, "NONE")),
             !.wipRoot = root,
             !.nextUnitOfWork = IF st.nextUnitOfWork # NULL THEN st.nextUnitOfWork ELSE root,
             !.deletions = <<>>,
             !.visited = <<>>]

\* mutant: the setter applies the action to the cell's state at once
setStateEager(st, fiber, cell, action) ==
  LET pushed == [st EXCEPT !.fibers[fiber].hooks[cell].queue = Append(@, action),
                           !.fibers[fiber].hooks[cell].state = ApplyAction(action, @)]
      root == Len(st.fibers) + 1
  IN IF st.currentRoot = NULL THEN pushed
     ELSE [pushed EXCEPT
             !.fibers = Append(@, Fiber(NoType, st.fibers[st.currentRoot].props,
                                        st.fibers[st.currentRoot].dom, NULL,
                                        st.currentRoot, "NONE")),
             !.wipRoot = root,
             !.nextUnitOfWork = root,
             !.deletions = <<>>,
             !.visited = <<>>]

\* the setter closed over hook cell `cell` of `fiber`; with no current root
\* currentRoot.dom throws after the push
setState(st, fiber, cell, action) ==
  LET pushed == [st EXCEPT !.fibers[fiber].hooks[cell].queue = Append(@, action)]
      root == Len(st.fibers) + 1
  IN IF st.currentRoot = NULL THEN pushed
     ELSE [pushed EXCEPT
             !.fibers = Append(@, Fiber(NoType, st.fibers[st.currentRoot].props,
                                        st.fibers[st.currentRoot].dom, NULL,
                                        st.currentRoot, "NONE")),
             !.wipRoot = root,
             !.nextUnitOfWork = root,
             !.deletions = <<>>,
             !.visited = <<>>]

\* a whole pass in one slice whose deadline never runs out
RECURSIVE workToEnd(_)
workToEnd(st) ==
  IF st.nextUnitOfWork # NULL
    THEN workToEnd(performUnitOfWork(st, st.nextUnitOfWork))
    ELSE st

wholePass(st) ==
  LET worked == workToEnd(st)
  IN IF worked.wipRoot # NULL THEN commitRoot(worked) ELSE worked

\* --------------------------------------------------- the attached host tree
RECURSIVE Below(_, _)
Below(dom, node) ==
  {node} \cup UNION {Below(dom, c) : c \in Range(dom[node].children)}

AttachedNodes(dom) == Below(dom, Container)

HostTree(dom) == [n \in AttachedNodes(dom) |-> dom[n]]

\* ------------------------------------------------------- tree vocabulary
\* the fibers of a child/sibling chain in the walk order of lines 217-228
RECURSIVE PreOrder(_, _)
PreOrder(fbs, fiber) ==
  IF fiber = NULL THEN <<>>
  ELSE <<fiber>> \o PreOrder(fbs, fbs[fiber].child) \o PreOrder(fbs, fbs[fiber].sibling)

\* the tree rooted at a root fiber, root first
TreeOf(fbs, root) == IF root = NULL THEN <<>> ELSE <<root>> \o PreOrder(fbs, fbs[root].child)

\* the roots committed so far: the current root and its alternates
RECURSIVE Committed(_, _)
Committed(fbs, root) ==
  IF root = NULL THEN {} ELSE {root} \cup Committed(fbs, fbs[root].alternate)

\* ------------------------------------------------------------ the machine
VARIABLES fibers, dom, wipRoot, currentRoot, nextUnitOfWork, deletions,
          wipFiber, hookIndex, crashed, visited, log,
          requests, lastOp, slices, expected, installed, interrupted,
          enqueued, probe

vars == <<fibers, dom, wipRoot, currentRoot, nextUnitOfWork, deletions,
          wipFiber, hookIndex, crashed, visited, log,
          requests, lastOp, slices, expected, installed, interrupted,
          enqueued, probe>>

\* the renderer and the record of its run; probe is apart from them
machine == <<fibers, dom, wipRoot, currentRoot, nextUnitOfWork, deletions,
             wipFiber, hookIndex, crashed, visited, log,
             requests, lastOp, slices, expected, installed, interrupted,
             enqueued>>

State ==
  [fibers |-> fibers, dom |-> dom, wipRoot |-> wipRoot,
   currentRoot |-> currentRoot, nextUnitOfWork |-> nextUnitOfWork,
   deletions |-> deletions, wipFiber |-> wipFiber, hookIndex |-> hookIndex,
   crashed |-> crashed, visited |-> visited, log |-> log]

Becomes(st) ==
  /\ fibers' = st.fibers
  /\ dom' = st.dom
  /\ wipRoot' = st.wipRoot
  /\ currentRoot' = st.currentRoot
  /\ nextUnitOfWork' = st.nextUnitOfWork
  /\ deletions' = st.deletions
  /\ wipFiber' = st.wipFiber
  /\ hookIndex' = st.hookIndex
  /\ crashed' = st.crashed
  /\ visited' = st.visited
  /\ log' = st.log

\* no host node under the props diff (the renderer runs)
NoProbe == [applied |-> 0]

\* enqueued records every setter call so far, in call order: the hook cell
\* (call index), the action, and whether the setter was the one of the fiber
\* of the current tree. probe is the host node a props diff is applied to on
\* its own, with the pair of props objects and the number of applications.
\* Idle: nothing rendered yet.
Idle ==
  /\ enqueued = <<>>
  /\ fibers = InitState.fibers
  /\ dom = InitState.dom
  /\ wipRoot = InitState.wipRoot
  /\ currentRoot = InitState.currentRoot
  /\ nextUnitOfWork = InitState.nextUnitOfWork
  /\ deletions = InitState.deletions
  /\ wipFiber = InitState.wipFiber
  /\ hookIndex = InitState.hookIndex
  /\ crashed = InitState.crashed
  /\ visited = InitState.visited
  /\ log = InitState.log
  /\ requests = 0
  /\ lastOp = "init"
  /\ slices = 0
  /\ expected = InitState
  /\ installed = NULL
  /\ interrupted = {}

Init == Idle /\ probe = NoProbe

\* render(element, container), called by the application at any time
Render(element) ==
  /\ requests < MaxRequests
  /\ LET st == render(State, element)
     IN /\ Becomes(st)
        /\ expected' = wholePass(st)
        /\ installed' = st.wipRoot
  /\ UNCHANGED <<interrupted, enqueued, probe>>
  /\ requests' = requests + 1
  /\ lastOp' = "render"
  /\ slices' = 0

\* the component fibers of the current tree
CurrentComponents ==
  {fiber \in Range(TreeOf(fibers, currentRoot)) : fibers[fiber].type \in FunctionTypes}

\* a call of the setter of hook cell `cell` of `fiber` with `action`
Call(fiber, cell, action) ==
  /\ requests < MaxRequests
  /\ LET st == setState(State, fiber, cell, action)
     IN /\ Becomes(st)
        /\ expected' = wholePass(st)
        /\ installed' = st.wipRoot
  /\ interrupted' = IF nextUnitOfWork # NULL THEN interrupted \cup {wipRoot}
                    ELSE interrupted
  /\ enqueued' = Append(enqueued, [cell |-> cell, action |-> action,
                                   current |-> fiber \in CurrentComponents])
  /\ requests' = requests + 1
  /\ lastOp' = "setState"
  /\ slices' = 0
  /\ UNCHANGED probe

\* a click on an attached host node that carries the listener an h1 of
\* Counter registered: () => setState(c => c + 1)
Click(node) ==
  \E listener \in dom[node].listeners :
    /\ listener[1] = "click"
    /\ listener[2].k = "set"
    /\ Call(listener[2].f, listener[2].i, "inc")

\* the component fibers of the trees committed so far: their setters are the
\* ones a committed handler can have handed to the application
HandedOut ==
  {fiber \in DOMAIN fibers :
     /\ fibers[fiber].type \in FunctionTypes
     /\ \E root \in Committed(fibers, currentRoot) : fiber \in Range(TreeOf(fibers, root))}

\* application code calls a setter it kept from any committed render
CallSetter(fiber, cell, action) ==
  /\ fiber \in HandedOut
  /\ cell \in DOMAIN fibers[fiber].hooks
  /\ Call(fiber, cell, action)

\* the idle callback is armed and has a unit to process or a root to commit
WorkPending == ~crashed /\ ~(nextUnitOfWork = NULL /\ wipRoot = NULL)

\* one idle callback: workLoop with a deadline that allows `budget` units.
\* With no unit and no root the callback only re-arms itself (no step); after
\* an exception it is not re-armed, so it never runs again.
WorkLoop(budget) ==
  /\ WorkPending
  /\ LET st == workLoop(State, budget)
     IN /\ Becomes(st)
        /\ lastOp' = IF st.crashed THEN "throw"
                     ELSE IF st.wipRoot = NULL THEN "commit"
                     ELSE "yield"
  /\ slices' = slices + 1
  /\ UNCHANGED <<requests, expected, installed, interrupted, enqueued, probe>>

Next ==
  \/ \E element \in RenderInputs : Render(element)
  \/ \E node \in AttachedNodes(dom) : Click(node)
  \/ \E budget \in 1 .. MaxSlice : WorkLoop(budget)

Spec == Init /\ [][Next]_vars

\* The steps of Next that count one more slice are the WorkLoop steps, and
\* one is possible exactly when WorkPending holds.
IdleCallback == WorkPending /\ slices' = slices + 1

\* The idle callback is re-armed at the end of every workLoop call that
\* returns (line 143) and the host runs it when idle: while a workLoop call
\* is possible, one eventually happens.
FairSpec == Spec /\ WF_slices(IdleCallback)

\* ------------------------------------------------ the machine of components
\* useState calls per render of any component
MaxCells == 2

\* An application made of the two components, whose code keeps the setters
\* its committed renders returned and calls them at any time.
HookNext ==
  \/ \E element \in ComponentInputs : Render(element)
  \/ \E fiber \in HandedOut, cell \in 1 .. MaxCells, action \in Actions :
       CallSetter(fiber, cell, action)
  \/ \E budget \in 1 .. MaxSlice : WorkLoop(budget)

HookSpec == Init /\ [][HookNext]_vars

\* ---------------------------------------------- the props diff on its own
\* the props objects and host-node states the diff is applied to
PropValues(key) ==
  IF key = "id" THEN {Str("a"), Str("b")}
  ELSE IF key = "title" THEN {Str("y")}
  ELSE {Fn("h1"), Fn("h2")}

PropKeys == {"id", "title", "onClick"}

PropsInputs ==
  UNION {[keys -> UNION {PropValues(key) : key \in keys}] : keys \in SUBSET PropKeys}

WellTyped(props) == \A key \in DOMAIN props : props[key] \in PropValues(key)

NodeInputs ==
  {[HostNode("div") EXCEPT !.attrs = attrs, !.listeners = listeners] :
     attrs \in {props \in PropsInputs : WellTyped(props) /\ "onClick" \notin DOMAIN props},
     listeners \in SUBSET {<<"click", Fn("h1")>>, <<"click", Fn("h2")>>}}

\* applications of the diff to one node with one pair of props objects
MaxApplications == 2

PropsInit ==
  /\ Idle
  /\ \E node \in NodeInputs :
       \E prevProps \in {props \in PropsInputs : WellTyped(props)} :
         \E nextProps \in {props \in PropsInputs : WellTyped(props)} :
           probe = [applied |-> 0, node |-> node, before |-> node, once |-> node,
                    prevProps |-> prevProps, nextProps |-> nextProps]

\* updateDOMNode(node, prevProps, nextProps)
Diff ==
  /\ probe.applied < MaxApplications
  /\ LET node == updateDOMNode(probe.node, probe.prevProps, probe.nextProps)
     IN probe' = [probe EXCEPT !.applied = @ + 1,
                               !.node = node,
                               !.once = IF probe.applied = 0 THEN node ELSE @]
  /\ UNCHANGED machine

PropsSpec == PropsInit /\ [][Diff]_vars

\* ------------------------------------------------------ claim vocabulary
IsPrefix(short, long) ==
  Len(short) <= Len(long) /\ SubSeq(long, 1, Len(short)) = short

\* the root of the pass the last workLoop call committed, or tried to
PassRoot == IF lastOp = "commit" THEN currentRoot ELSE wipRoot

Unattached == DOMAIN dom \ AttachedNodes(dom)

\* ----------------------------------------------------------------- claims

\* C1: a render pass cut into idle slices of any sizes, with no request in
\* between, ends in the same state (fibers with their types, props, effect
\* tags and host nodes, deletions, host nodes and their attachment, current
\* root) as the same pass run in one slice whose deadline never runs out.
C1_YieldResumeContinuity ==
  lastOp \in {"commit", "throw"} => State = expected

\* a pass over a tree committed before, cut into three slices or more
C1_Witness ==
  /\ lastOp = "commit"
  /\ slices >= 3
  /\ fibers[currentRoot].alternate # NULL

\* C2: commitRoot runs only with nextUnitOfWork exhausted and wipRoot set, and
\* then every fiber of the tree under that root was processed by
\* performUnitOfWork in this pass.
C2_CommitGating ==
  lastOp \in {"commit", "throw"} =>
    /\ nextUnitOfWork = NULL
    /\ PassRoot # NULL
    /\ Range(TreeOf(fibers, PassRoot)) \subseteq Range(visited)

\* a commit that followed an interrupted pass and several slices
C2_Witness ==
  /\ lastOp = "commit"
  /\ slices >= 2
  /\ requests >= 2
  /\ Len(TreeOf(fibers, currentRoot)) >= 4

\* C3: the attached host tree (which nodes hang under the container, in which
\* order, with which attributes and listeners) changes only in a workLoop call
\* that runs commitRoot.
C3_HostTreeOnlyInCommit ==
  [][lastOp' \notin {"commit", "throw"} => HostTree(dom') = HostTree(dom)]_vars

\* between two slices of a pass over a committed tree, a host node the pass
\* created exists and is not attached
C3_Witness ==
  /\ lastOp = "yield"
  /\ currentRoot # NULL
  /\ \E fiber \in Range(TreeOf(fibers, wipRoot)) :
       fibers[fiber].dom \in Unattached

\* C7: the fibers a pass has processed are, in order, the first fibers of the
\* pre-order walk of its tree (so none is processed twice), and at commit they
\* are the whole walk.
C7_PreOrderOnce ==
  /\ wipRoot # NULL => IsPrefix(visited, TreeOf(fibers, wipRoot))
  /\ lastOp = "commit" => visited = TreeOf(fibers, currentRoot)

\* a committed pass that climbed from a leaf to the sibling of its parent
C7_Witness ==
  /\ lastOp = "commit"
  /\ \E j \in 1 .. Len(visited) - 1 :
       /\ fibers[visited[j]].sibling = NULL
       /\ fibers[visited[j]].child = NULL
       /\ fibers[fibers[visited[j]].parent].sibling = visited[j + 1]

\* C4 as claimed: after every commitRoot the current root is the root that was
\* committed, wipRoot is null and the deletions list is empty.
C4_CommitClearsState ==
  lastOp = "commit" =>
    /\ currentRoot = installed
    /\ wipRoot = NULL
    /\ deletions = <<>>

\* C5 as claimed: a setter called between two units of a pass does not stop
\* the pass (the work-in-progress root and the pointer stay as they are).
C5_NoCancellation ==
  [][(lastOp' = "setState" /\ nextUnitOfWork # NULL) =>
       (wipRoot' = wipRoot /\ nextUnitOfWork' = nextUnitOfWork)]_vars

\* C5 as amended: a setter called between two units of a pass cancels it; the
\* root of the interrupted pass is never committed.
C5_InterruptedNeverCommitted ==
  interrupted \cap Committed(fibers, currentRoot) = {}

\* a commit after a pass that a setter interrupted part-way through its tree
C5_Witness ==
  /\ lastOp = "commit"
  /\ \E root \in interrupted : Len(TreeOf(fibers, root)) >= 3

\* C6: a setter called during a pass installs at once a fresh root whose
\* alternate is the current root and points nextUnitOfWork at it, leaving the
\* current root alone; and every commit is that of the root installed last.
C6_SetStateInterrupts ==
  [][/\ (lastOp' = "setState" /\ nextUnitOfWork # NULL) =>
          /\ wipRoot' \notin DOMAIN fibers
          /\ fibers'[wipRoot'].alternate = currentRoot
          /\ nextUnitOfWork' = wipRoot'
          /\ currentRoot' = currentRoot
          /\ wipRoot \notin Committed(fibers', currentRoot')
     /\ lastOp' = "commit" => currentRoot' = installed
    ]_vars

\* a setter has just been called while a pass had built part of its tree
C6_Witness ==
  /\ lastOp = "setState"
  /\ nextUnitOfWork = wipRoot
  /\ \E root \in interrupted :
       /\ Len(TreeOf(fibers, root)) >= 2
       /\ root < installed

\* two element trees with the same types and child counts at every position
RECURSIVE SameShape(_, _)
SameShape(one, other) ==
  /\ one.type = other.type
  /\ Len(one.props.children) = Len(other.props.children)
  /\ \A j \in DOMAIN one.props.children :
       SameShape(one.props.children[j], other.props.children[j])

\* the root committed before the current one
PreviousRoot == IF currentRoot = NULL THEN NULL ELSE fibers[currentRoot].alternate

\* the last commit followed the commit of a tree of the same shape
ReusePass ==
  /\ lastOp = "commit"
  /\ PreviousRoot # NULL
  /\ SameShape(fibers[currentRoot].props.children[1],
               fibers[PreviousRoot].props.children[1])

\* C8 as claimed: when two consecutive committed renders have element trees
\* of the same shape, every non-root fiber of the second is tagged UPDATE, its
\* alternate is the previous fiber at its position and it keeps that fiber's
\* host node; deletions is empty and the commit attaches and detaches nothing.
C8_PositionalReuse ==
  ReusePass =>
    LET new == TreeOf(fibers, currentRoot)
        old == TreeOf(fibers, PreviousRoot)
    IN /\ Len(new) = Len(old)
       /\ \A j \in 2 .. Len(new) :
            /\ fibers[new[j]].effectTag = "UPDATE"
            /\ fibers[new[j]].alternate = old[j]
            /\ fibers[new[j]].dom = fibers[old[j]].dom
       /\ deletions = <<>>
       /\ \A j \in DOMAIN log : log[j].op \notin {"append", "remove", "throw"}

\* the fibers of a sibling chain, first to last
RECURSIVE Chain(_, _)
Chain(fbs, fiber) ==
  IF fiber = NULL THEN <<>> ELSE <<fiber>> \o Chain(fbs, fbs[fiber].sibling)

Children(fbs, fiber) == Chain(fbs, fbs[fiber].child)

\* fiber is a host parent of the pass whose element list is the first K of
\* the N > K elements its alternate's children were made from
IsShrink(fiber) ==
  /\ fibers[fiber].type \notin FunctionTypes
  /\ fibers[fiber].alternate # NULL
  /\ LET elements == fibers[fiber].props.children
         old == Children(fibers, fibers[fiber].alternate)
     IN /\ Len(elements) < Len(old)
        /\ \A j \in DOMAIN elements :
             /\ elements[j].type = fibers[old[j]].type
             /\ elements[j].props = fibers[old[j]].props

\* C9 as claimed: a parent whose element list shrinks to its first K elements
\* gets K children tagged UPDATE, the other N-K previous fibers are appended
\* to deletions in positional order and tagged DELETION, and the commit
\* completes having detached exactly their N-K host nodes.
C9_ListShrink ==
  lastOp \in {"commit", "throw"} =>
    \A fiber \in Range(TreeOf(fibers, PassRoot)) :
      IsShrink(fiber) =>
        LET new == Children(fibers, fiber)
            old == Children(fibers, fibers[fiber].alternate)
            gone == SubSeq(old, Len(new) + 1, Len(old))
        IN /\ Len(new) = Len(fibers[fiber].props.children)
           /\ \A j \in DOMAIN new :
                /\ fibers[new[j]].effectTag = "UPDATE"
                /\ fibers[new[j]].alternate = old[j]
           /\ SelectSeq(deletions, LAMBDA d : d \in Range(old)) = gone
           /\ \A j \in DOMAIN gone : fibers[gone[j]].effectTag = "DELETION"
           /\ lastOp = "commit"
           /\ \A j \in DOMAIN gone :
                /\ Cardinality({e \in DOMAIN log :
                                  log[e].node = fibers[gone[j]].dom
                                  /\ log[e].op \in {"remove", "throw"}}) = 1
                /\ fibers[gone[j]].dom \notin AttachedNodes(dom)

\* the commitWork calls of the last commit that took the UPDATE branch on a
\* fiber of the committed tree
CommittedUpdates ==
  {e \in DOMAIN log : /\ log[e].op = "update"
                      /\ log[e].fiber \in Range(TreeOf(fibers, currentRoot))}

PlainKeys(props) == {key \in DOMAIN props : isProperty(key)}

\* C10: committing an UPDATE fiber keeps the host node of its alternate, writes
\* exactly the plain attributes whose values differ between alternate.props
\* and props, and leaves the node's plain attributes equal to the new props
\* (an attribute absent from the new props holds the empty string).
C10_UpdateWritesDiff ==
  lastOp = "commit" =>
    \A e \in CommittedUpdates :
      LET fb == fibers[log[e].fiber]
          prev == fibers[fb.alternate].props.attrs
          next == fb.props.attrs
          node == dom[fb.dom]
      IN /\ fb.dom = fibers[fb.alternate].dom
         /\ log[e].keys = {key \in PlainKeys(prev) \cup PlainKeys(next) :
                             Get(prev, key) # Get(next, key)}
         /\ \A key \in PlainKeys(next) : Get(node.attrs, key) = next[key]
         /\ \A key \in DOMAIN node.attrs \ PlainKeys(next) : node.attrs[key] = Str("")

\* a committed UPDATE that cleared one attribute and wrote another
C10_Witness ==
  /\ lastOp = "commit"
  /\ \E e \in CommittedUpdates :
       LET next == fibers[log[e].fiber].props.attrs
       IN /\ \E key \in log[e].keys : key \notin DOMAIN next
          /\ \E key \in log[e].keys : key \in DOMAIN next

\* ------------------------------------------------------------ hook claims
\* a_k(...a_1(base)) for the queue <<a_1, ..., a_k>>
RECURSIVE Resolved(_, _)
Resolved(queue, base) ==
  IF queue = <<>> THEN base
  ELSE ApplyAction(queue[Len(queue)],
                   Resolved(SubSeq(queue, 1, Len(queue) - 1), base))

\* the component fibers the step has rendered
JustRendered ==
  {fiber \in Range(visited') \ Range(visited) : fibers'[fiber].type \in FunctionTypes}

\* the component fibers of this pass rendered from a previous fiber; no setter
\* was called since (a call starts a new pass)
Rerendered ==
  {fiber \in Range(visited) : /\ fibers[fiber].type \in FunctionTypes
                              /\ fibers[fiber].alternate # NULL}

\* C11: when a component fiber is rendered, each of its hook cells holds the
\* state of the alternate's cell at the same call index folded with the
\* actions of that cell's queue in enqueue order, a_k(...a_1(s)); with no such
\* cell it holds the initial value.
C11_UseStateResolution ==
  [][\A fiber \in JustRendered :
       LET alternate == fibers'[fiber].alternate
           hooks == fibers'[fiber].hooks
       IN \A index \in DOMAIN hooks :
            hooks[index].state =
              IF alternate # NULL /\ index \in DOMAIN fibers[alternate].hooks
                THEN Resolved(fibers[alternate].hooks[index].queue,
                              fibers[alternate].hooks[index].state)
                ELSE InitialOf(fibers'[fiber].type, index)
    ]_vars

\* a component rendered from a cell whose queue holds inc then dbl, two
\* actions whose order shows in the result
C11_Witness ==
  \E fiber \in Rerendered :
    \E index \in DOMAIN fibers[fiber].hooks :
      LET old == fibers[fibers[fiber].alternate].hooks[index]
      IN /\ old.queue = <<"inc", "dbl">>
         /\ fibers[fiber].hooks[index].state = (old.state + 1) * 2

\* C12: a setter call changes the queue of one hook cell only, and a render
\* leaves the state of every cell whose previous queue is empty as it was,
\* whatever was enqueued on the other cells of the component.
C12_HookIndependence ==
  [][/\ lastOp' = "setState" =>
          \E fiber \in DOMAIN fibers :
            \E cell \in DOMAIN fibers[fiber].hooks :
              \A other \in DOMAIN fibers :
                \A index \in DOMAIN fibers[other].hooks :
                  <<other, index>> # <<fiber, cell>> =>
                    fibers'[other].hooks[index] = fibers[other].hooks[index]
     /\ \A fiber \in JustRendered :
          LET alternate == fibers'[fiber].alternate
          IN alternate # NULL =>
               \A index \in DOMAIN fibers[alternate].hooks :
                 fibers[alternate].hooks[index].queue = <<>> =>
                   fibers'[fiber].hooks[index].state = fibers[alternate].hooks[index].state
    ]_vars

\* a committed render of Pair after setter calls on its second cell only: the
\* second state moved, the first did not
C12_Witness ==
  /\ lastOp = "commit"
  /\ \E fiber \in Rerendered :
       LET old == fibers[fibers[fiber].alternate].hooks
           new == fibers[fiber].hooks
       IN /\ fibers[fiber].type = "Pair"
          /\ old[1].queue = <<>>
          /\ Len(old[2].queue) >= 2
          /\ new[2].state # old[2].state
          /\ new[1].state = old[1].state

\* C13: a setter call appends its action to one queue and changes no other
\* field of any fiber (no hook state in particular); it installs a new root
\* with the current root's host node and props and the current root as its
\* alternate, points wipRoot and nextUnitOfWork at it and empties deletions;
\* the current root, the host nodes and the record of the last commit stay as
\* they are.
C13_SetterFrame ==
  [][lastOp' = "setState" =>
       /\ \E fiber \in DOMAIN fibers :
            \E cell \in DOMAIN fibers[fiber].hooks :
              \E action \in Actions :
                SubSeq(fibers', 1, Len(fibers)) =
                  [fibers EXCEPT ![fiber].hooks[cell].queue = Append(@, action)]
       /\ \A fiber \in DOMAIN fibers :
            \A cell \in DOMAIN fibers[fiber].hooks :
              fibers'[fiber].hooks[cell].state = fibers[fiber].hooks[cell].state
       /\ Len(fibers') = Len(fibers) + 1
       /\ wipRoot' = Len(fibers')
       /\ nextUnitOfWork' = wipRoot'
       /\ fibers'[wipRoot'].dom = fibers[currentRoot].dom
       /\ fibers'[wipRoot'].props = fibers[currentRoot].props
       /\ fibers'[wipRoot'].alternate = currentRoot
       /\ fibers'[wipRoot'].child = NULL
       /\ deletions' = <<>>
       /\ currentRoot' = currentRoot
       /\ dom' = dom
       /\ log' = log
    ]_vars

\* a setter was called during a pass that had already tagged a fiber for
\* deletion: the list is empty again
C13_Witness ==
  /\ lastOp = "setState"
  /\ deletions = <<>>
  /\ \E fiber \in DOMAIN fibers : fibers[fiber].effectTag = "DELETION"
  /\ \E fiber \in DOMAIN fibers :
       \E cell \in DOMAIN fibers[fiber].hooks : fibers[fiber].hooks[cell].queue # <<>>

\* ---------------------------------------------------------- commit claims
\* the host nodes of the nearest host-bearing fibers of a sibling chain and
\* below, in child/sibling order
RECURSIVE HostNodesOfChain(_, _)
HostNodesOfChain(fbs, fiber) ==
  IF fiber = NULL THEN <<>>
  ELSE (IF fbs[fiber].dom # NULL THEN <<fbs[fiber].dom>>
        ELSE HostNodesOfChain(fbs, fbs[fiber].child))
       \o HostNodesOfChain(fbs, fbs[fiber].sibling)

\* the host nodes of the nearest host-bearing descendants of a fiber
NearestHostNodes(fbs, fiber) == HostNodesOfChain(fbs, fbs[fiber].child)

\* the commitWork calls of the last commit on a DELETION fiber with no host
\* node of its own
ComponentDeletions ==
  {e \in DOMAIN log : log[e].effectTag = "DELETION" /\ log[e].node = NULL}

\* C14 as claimed: when the commit processes a DELETION fiber with no host
\* node of its own, it detaches the host nodes of the fiber's nearest
\* host-bearing descendants, and after the commit none of them is attached.
C14_ComponentDeletion ==
  lastOp \in {"commit", "throw"} =>
    \A e \in ComponentDeletions :
      /\ log[e].op # "throw"
      /\ lastOp = "commit"
      /\ \A node \in Range(NearestHostNodes(fibers, log[e].fiber)) :
           node \notin AttachedNodes(dom)

\* C16 as claimed: commitWork visits no fiber twice in one commit, and only
\* fibers of the deletions list or of the tree being committed.
C16_EffectTagConsumedOnce ==
  lastOp \in {"commit", "throw"} =>
    /\ \A e \in DOMAIN log : \A other \in DOMAIN log :
         log[e].fiber = log[other].fiber => e = other
    /\ \A e \in DOMAIN log :
         log[e].fiber \in Range(deletions) \cup Range(TreeOf(fibers, PassRoot))
    /\ \A fiber \in Range(TreeOf(fibers, PassRoot)) \ {PassRoot} :
         fibers[fiber].effectTag \in {"PLACEMENT", "UPDATE"}

\* C17 as claimed: under fair re-invocation of workLoop a requested pass
\* eventually commits (requests are finitely many, so from some point on no
\* further request arrives).
C17_Progress ==
  (wipRoot # NULL) ~> (lastOp = "commit")

\* C18 as claimed: every removeChild of a commit is given a host node that
\* is at that moment a child of the located host parent, and no host node is
\* detached twice in one commit.
C18_DetachValidity ==
  /\ \A e \in DOMAIN log : log[e].op # "throw"
  /\ \A e \in DOMAIN log : \A other \in DOMAIN log :
       (log[e].op = "remove" /\ log[other].op = "remove"
          /\ log[e].node = log[other].node) => e = other

\* C19 as claimed: after every commit, the host nodes attached under the
\* host node of each host-bearing fiber of the current tree are, in order,
\* the host nodes of its nearest host-bearing descendants.
C19_HostTreeMirrors ==
  lastOp = "commit" =>
    \A fiber \in Range(TreeOf(fibers, currentRoot)) :
      fibers[fiber].dom # NULL =>
        dom[fibers[fiber].dom].children = NearestHostNodes(fibers, fiber)

\* ------------------------------------------------------- props diff claim
\* C15: for every host node state and every pair of props objects, applying
\* updateDOMNode a second time with the same pair leaves the node's attributes
\* and registered listeners as the first application left them.
C15_DiffIdempotent ==
  probe.applied >= 2 => /\ probe.node.attrs = probe.once.attrs
                        /\ probe.node.listeners = probe.once.listeners

\* two applications of a diff that unregistered a listener, registered
\* another, cleared an attribute and wrote another
C15_Witness ==
  /\ probe.applied = 2
  /\ probe.before.listeners \ probe.once.listeners # {}
  /\ probe.once.listeners \ probe.before.listeners # {}
  /\ \E key \in GoneKeys(probe.prevProps, probe.nextProps) :
       Get(probe.before.attrs, key) # Str("")
  /\ \E key \in ChangedKeys(probe.prevProps, probe.nextProps) :
       Get(probe.before.attrs, key) # probe.nextProps[key]

\* ------------------------------------------------------ lost-update claim
\* the actions passed so far to the setters of the cell at a call index, in
\* call order
RECURSIVE ActionsOn(_, _)
ActionsOn(calls, cell) ==
  IF calls = <<>> THEN <<>>
  ELSE (IF Head(calls).cell = cell THEN <<Head(calls).action>> ELSE <<>>)
       \o ActionsOn(Tail(calls), cell)

\* C20 as claimed: once a pass has committed and nothing is pending, every
\* hook cell of the committed components holds its initial value folded with
\* all the actions passed so far to the setters of that cell, in call order,
\* whichever render returned the setter that was called.
C20_NoLostUpdate ==
  lastOp = "commit" =>
    \A fiber \in CurrentComponents :
      \A index \in DOMAIN fibers[fiber].hooks :
        fibers[fiber].hooks[index].state =
          Resolved(ActionsOn(enqueued, index), InitialOf(fibers[fiber].type, index))

====
